---- MODULE Spec2Model ----
(***************************************************************************)
(* Model of fix_spf.py: the repair of a STAMP profile (SPF) table so that  *)
(* its level labels form a strict hierarchy.                               *)
(*                                                                         *)
(* A label is a Python str, modelled as the sequence of its characters.    *)
(* A table is a sequence of data rows, a row a sequence of cells; the      *)
(* first col_count cells of a row are its levels, the rest is payload.     *)
(* Rows are numbered from 1 (pandas row_i + 1); columns and levels are     *)
(* numbered from 0 as in the source: level l of row r is r[l + 1].         *)
(* The header line is copied through unchanged by every pass and is not    *)
(* part of the table.                                                      *)
(***************************************************************************)
EXTENDS Integers, Sequences, FiniteSets, TLC

VARIABLES
    in_file,        \* data lines of args.input, split on tabs
    col_count,      \* args.col_count
    replace_ambig,  \* args.replace_ambig
    pc,             \* position of main()
    parsed_spf,     \* input_spf after pd.read_csv
    strict_spf,     \* input_spf after force_strict_spf_hierarchy
    filled_spf,     \* input_spf after check_intermediate_unclassified
    out_file,       \* data rows of args.output, <<>> while it does not exist
    exit_msg,       \* argument of sys.exit, <<>> when it was not called
    error           \* uncaught exception that ended the run, "" when none

vars == <<in_file, col_count, replace_ambig, pc, parsed_spf, strict_spf,
          filled_spf, out_file, exit_msg, error>>

(***************************************************************************)
(* Bounds of the model.                                                    *)
(***************************************************************************)
MaxRows == 3
MaxColCount == 5
MaxCells == 9
MaxAmbigCells == 6

(***************************************************************************)
(* Strings.                                                                *)
(***************************************************************************)
Unclassified == <<"U","n","c","l","a","s","s","i","f","i","e","d">>

UpperChars == <<"A","B","C","D","E","F","G","H","I","J","K","L","M",
                "N","O","P","Q","R","S","T","U","V","W","X","Y","Z">>
LowerChars == <<"a","b","c","d","e","f","g","h","i","j","k","l","m",
                "n","o","p","q","r","s","t","u","v","w","x","y","z">>
DigitChars == <<"0","1","2","3","4","5","6","7","8","9">>

IsDigit(c) == \E i \in 1..Len(DigitChars) : DigitChars[i] = c

\* str.lower() on one character (ASCII letters).
LowerOf == [c \in {UpperChars[i] : i \in 1..Len(UpperChars)} |->
               LowerChars[CHOOSE i \in 1..Len(UpperChars) : UpperChars[i] = c]]

LowerChar(c) == IF c \in DOMAIN LowerOf THEN LowerOf[c] ELSE c

\* label.lower()
Lower(s) == [i \in 1..Len(s) |-> LowerChar(s[i])]

\* "sub in s"
Contains(s, sub) ==
    \E i \in 0..(Len(s) - Len(sub)) :
        \A k \in 1..Len(sub) : s[i + k] = sub[k]

\* str(idx) for idx >= 0
RECURSIVE str(_)
str(n) == IF n < 10 THEN <<DigitChars[n + 1]>>
          ELSE str(n \div 10) \o <<DigitChars[(n % 10) + 1]>>

\* "X" * n
RECURSIVE Xs(_)
Xs(n) == IF n <= 0 THEN <<>> ELSE <<"X">> \o Xs(n - 1)

\* sequence.unique(): the distinct values in order of first occurrence
RECURSIVE unique(_)
unique(s) ==
    IF s = <<>> THEN <<>>
    ELSE LET front == unique(SubSeq(s, 1, Len(s) - 1))
             last  == s[Len(s)]
         IN  IF \E i \in 1..Len(front) : front[i] = last
             THEN front ELSE Append(front, last)

\* Column c (from 0) of a table, top to bottom.
Column(spf, c) == [r \in 1..Len(spf) |-> spf[r][c + 1]]

\* The values of s at the rows of mask, in row order.
RECURSIVE Masked(_, _)
Masked(s, mask) ==
    IF s = <<>> THEN <<>>
    ELSE LET n == Len(s)
             front == Masked(SubSeq(s, 1, n - 1), SubSeq(mask, 1, n - 1))
         IN  IF mask[n] THEN Append(front, s[n]) ELSE front

(***************************************************************************)
(* force_strict_spf_hierarchy                                              *)
(***************************************************************************)
dup == <<"_","d","u","p">>

\* in_spf.loc[rows2change, current_col] = new_label
SetRows(spf, rows2change, c, new_label) ==
    [r \in 1..Len(spf) |->
        IF rows2change[r] THEN [spf[r] EXCEPT ![c + 1] = new_label]
        ELSE spf[r]]

\* for idx, p in enumerate(unique_parents), from position k (from 1) on
RECURSIVE RenameParents(_, _, _, _, _, _)
RenameParents(spf, i, label, matching_rows, unique_parents, k) ==
    IF k > Len(unique_parents) THEN spf
    ELSE LET idx == k - 1
             p == unique_parents[k]
             new_label == label \o dup \o str(idx)
             rows2change == [r \in 1..Len(spf) |->
                                matching_rows[r] /\ spf[r][i] = p]
         IN  RenameParents(SetRows(spf, rows2change, i, new_label),
                           i, label, matching_rows, unique_parents, k + 1)

\* The body of "for label in unique_labels" for one label of column i.
FixLabel(spf, i, label) ==
    IF label = Unclassified THEN spf
    ELSE LET matching_rows == [r \in 1..Len(spf) |-> spf[r][i + 1] = label]
             n_matching == Cardinality({r \in 1..Len(spf) : matching_rows[r]})
             unique_parents == unique(Masked(Column(spf, i - 1), matching_rows))
         IN  IF n_matching = 1 THEN spf
             ELSE IF Len(unique_parents) > 1
                  THEN RenameParents(spf, i, label, matching_rows,
                                     unique_parents, 1)
                  ELSE spf

\* for label in unique_labels, from position k (from 1) on
RECURSIVE FixLabels(_, _, _, _)
FixLabels(spf, i, unique_labels, k) ==
    IF k > Len(unique_labels) THEN spf
    ELSE FixLabels(FixLabel(spf, i, unique_labels[k]), i, unique_labels, k + 1)

\* The body of "for i in range(col_count)" for one column i.
FixColumn(spf, i) ==
    IF i = 0 THEN spf
    ELSE FixLabels(spf, i, unique(Column(spf, i)), 1)

\* FixColumns with range(col_count + 1) for its loop.
RECURSIVE FixColumns_OneMore(_, _, _)
FixColumns_OneMore(spf, cc, i) ==
    IF i > cc THEN spf
    ELSE FixColumns_OneMore(FixColumn(spf, i), cc, i + 1)

\* for i in range(col_count), from column i on
RECURSIVE FixColumns(_, _, _)
FixColumns(spf, cc, i) ==
    IF i >= cc THEN spf
    ELSE FixColumns(FixColumn(spf, i), cc, i + 1)

force_strict_spf_hierarchy(in_spf, cc) == FixColumns(in_spf, cc, 0)

(***************************************************************************)
(* check_intermediate_unclassified                                         *)
(***************************************************************************)
\* " ".join(taxa)
RECURSIVE Join(_)
Join(taxa) ==
    IF taxa = <<>> THEN <<>>
    ELSE IF Len(taxa) = 1 THEN taxa[1]
    ELSE Join(SubSeq(taxa, 1, Len(taxa) - 1)) \o <<" ">> \o taxa[Len(taxa)]

Stopping == <<"Stopping - first level of this lineage is Unclassified, but lower levels are classified:\n">>

\* The indices i (from 0, ascending) of taxa with (taxa[i] == 'Unclassified') = u:
\* unclassified_i for u = TRUE, classified_i for u = FALSE.
RECURSIVE IndexList(_, _)
IndexList(taxa, u) ==
    IF taxa = <<>> THEN <<>>
    ELSE LET n == Len(taxa)
             front == IndexList(SubSeq(taxa, 1, n - 1), u)
         IN  IF (taxa[n] = Unclassified) = u THEN Append(front, n - 1) ELSE front

InList(x, list) == \E k \in 1..Len(list) : list[k] = x

\* min() and max() of a non-empty list of integers
Min(list) == CHOOSE x \in {list[k] : k \in 1..Len(list)} :
                 \A k \in 1..Len(list) : x <= list[k]
Max(list) == CHOOSE x \in {list[k] : k \in 1..Len(list)} :
                 \A k \in 1..Len(list) : x >= list[k]

\* Walk with the test "current_i not in classified_i" left out, so that a
\* level filled earlier in the row counts as an ancestor.
RECURSIVE Walk_FilledAncestor(_, _, _, _, _)
Walk_FilledAncestor(taxa, classified_i, unclass_i, current_i, unclassified_steps) ==
    IF ~(current_i > 0) THEN taxa
    ELSE LET c == current_i - 1
         IN  IF taxa[c + 1] = Unclassified
             THEN Walk_FilledAncestor(taxa, classified_i, unclass_i, c,
                                      unclassified_steps + 1)
             ELSE [taxa EXCEPT ![unclass_i + 1] =
                       taxa[c + 1] \o <<"_">> \o Xs(unclassified_steps)]

\* The "while current_i > 0" loop that fills level unclass_i of taxa.
RECURSIVE Walk(_, _, _, _, _)
Walk(taxa, classified_i, unclass_i, current_i, unclassified_steps) ==
    IF ~(current_i > 0) THEN taxa
    ELSE LET c == current_i - 1
         IN  IF taxa[c + 1] = Unclassified \/ ~InList(c, classified_i)
             THEN Walk(taxa, classified_i, unclass_i, c, unclassified_steps + 1)
             ELSE [taxa EXCEPT ![unclass_i + 1] =
                       taxa[c + 1] \o <<"_">> \o Xs(unclassified_steps)]

\* FillLevels with "unclass_i < max(classified_i) - 1" for its test.
RECURSIVE FillLevels_OffByOne(_, _, _, _)
FillLevels_OffByOne(taxa, unclassified_i, classified_i, k) ==
    IF k > Len(unclassified_i) THEN taxa
    ELSE LET unclass_i == unclassified_i[k]
             next_taxa == IF unclass_i < Max(classified_i) - 1
                          THEN Walk(taxa, classified_i, unclass_i, unclass_i, 1)
                          ELSE taxa
         IN  FillLevels_OffByOne(next_taxa, unclassified_i, classified_i, k + 1)

\* for unclass_i in unclassified_i, from position k (from 1) on
RECURSIVE FillLevels(_, _, _, _)
FillLevels(taxa, unclassified_i, classified_i, k) ==
    IF k > Len(unclassified_i) THEN taxa
    ELSE LET unclass_i == unclassified_i[k]
             next_taxa == IF unclass_i < Max(classified_i)
                          THEN Walk(taxa, classified_i, unclass_i, unclass_i, 1)
                          ELSE taxa
         IN  FillLevels(next_taxa, unclassified_i, classified_i, k + 1)

\* The body of "for row_i, row in orig_spf.iterrows()" on the levels taxa of
\* one row: what it leaves in taxa, or how it ends the run.
FillRow(taxa) ==
    LET unclassified_i == IndexList(taxa, TRUE)
        classified_i == IndexList(taxa, FALSE)
    IN  IF unclassified_i = <<>>
        THEN [status |-> "ok", taxa |-> taxa, msg |-> <<>>]
        ELSE IF classified_i = <<>>
        \* max() of an empty list
        THEN [status |-> "ValueError", taxa |-> taxa, msg |-> <<>>]
        ELSE IF ~(Min(unclassified_i) < Max(classified_i))
        THEN [status |-> "ok", taxa |-> taxa, msg |-> <<>>]
        ELSE IF taxa[1] = Unclassified
        THEN [status |-> "exit", taxa |-> taxa, msg |-> Stopping \o Join(taxa)]
        ELSE [status |-> "ok",
              taxa |-> FillLevels(taxa, unclassified_i, classified_i, 1),
              msg |-> <<>>]

\* new_spf.iloc[row_i, 0:max_col_i] = taxa
SetLevels(row, max_col_i, taxa) ==
    [c \in 1..Len(row) |-> IF c <= max_col_i THEN taxa[c] ELSE row[c]]

\* for row_i, row in orig_spf.iterrows(), from row r on
RECURSIVE FillRows(_, _, _, _)
FillRows(orig_spf, new_spf, max_col_i, r) ==
    IF r > Len(orig_spf)
    THEN [status |-> "ok", spf |-> new_spf, msg |-> <<>>]
    ELSE LET taxa == SubSeq(orig_spf[r], 1, max_col_i)
             res == FillRow(taxa)
         IN  IF res.status = "ok"
             THEN FillRows(orig_spf,
                           [new_spf EXCEPT ![r] = SetLevels(@, max_col_i, res.taxa)],
                           max_col_i, r + 1)
             ELSE [status |-> res.status, spf |-> new_spf, msg |-> res.msg]

check_intermediate_unclassified(orig_spf, cc) ==
    LET max_col_i == cc - 1
    IN  FillRows(orig_spf, orig_spf, max_col_i, 1)

(***************************************************************************)
(* replace_ambig_labels                                                    *)
(***************************************************************************)
str2replace == << <<"u","n","c","u","l","t","u","r","e","d">>,
                  <<"a","m","b","i","g","u","o","u","s","_","t","a","x","a">>,
                  <<"m","e","t","a","g","e","n","o","m","e">>,
                  <<"u","n","i","d","e","n","t","i","f","i","e","d">> >>

unknown == <<"u","n","k","n","o","w","n">>

\* The end of the longest run of digits of s that starts at position i,
\* i - 1 when s has no digit there.
RECURSIVE DigitsEnd(_, _)
DigitsEnd(s, i) ==
    IF i <= Len(s) /\ IsDigit(s[i]) THEN DigitsEnd(s, i + 1) ELSE i - 1

\* Where a match of D_\d+__ that starts at position i of s ends, 0 when there
\* is none.
PrefixEnd(s, i) ==
    IF i + 1 <= Len(s) /\ s[i] = "D" /\ s[i + 1] = "_"
    THEN LET e == DigitsEnd(s, i + 2)
         IN  IF e >= i + 2 /\ e + 2 <= Len(s) /\ s[e + 1] = "_" /\ s[e + 2] = "_"
             THEN e + 2 ELSE 0
    ELSE 0

\* re.search(r"D_\d+__(.*)", s) is not None
HasTaxon(s) == \E i \in 1..Len(s) : PrefixEnd(s, i) > 0

\* re.search(r"D_\d+__(.*)", s).group(1): what follows the leftmost match
Taxon(s) ==
    LET i == CHOOSE j \in 1..Len(s) :
                 PrefixEnd(s, j) > 0 /\ \A h \in 1..(j - 1) : PrefixEnd(s, h) = 0
    IN  SubSeq(s, PrefixEnd(s, i) + 1, Len(s))

\* re.match(r"D_\d+__", s) is not None
HasLevel(s) == Len(s) > 0 /\ PrefixEnd(s, 1) > 0

\* re.match(r"D_\d+__", s).group(0)
Level(s) == SubSeq(s, 1, PrefixEnd(s, 1))

\* for s in str2replace: if s in label.lower()
StrMatch(label) ==
    \E k \in 1..Len(str2replace) : Contains(Lower(label), str2replace[k])

\* ReplaceLabels reading the parent from taxa, the labels as they came in,
\* and not from out_taxa.
RECURSIVE ReplaceLabels_InputParent(_, _, _)
ReplaceLabels_InputParent(taxa, out_taxa, k) ==
    IF k > Len(taxa) THEN [status |-> "ok", taxa |-> out_taxa]
    ELSE LET label == taxa[k]
             pre_label_i == (k - 1) - 1
         IN  IF StrMatch(label)
             THEN ReplaceLabels_InputParent(taxa, Append(out_taxa, Unclassified),
                                            k + 1)
             ELSE IF Contains(Lower(label), unknown)
             THEN IF pre_label_i < 0 \/ taxa[pre_label_i + 1] = Unclassified
                  THEN ReplaceLabels_InputParent(taxa,
                           Append(out_taxa, Unclassified), k + 1)
                  ELSE IF ~HasTaxon(taxa[pre_label_i + 1]) \/ ~HasLevel(label)
                  THEN [status |-> "AttributeError", taxa |-> out_taxa]
                  ELSE ReplaceLabels_InputParent(taxa,
                           Append(out_taxa,
                                  Level(label) \o Taxon(taxa[pre_label_i + 1])
                                      \o <<"_","X">>),
                           k + 1)
             ELSE ReplaceLabels_InputParent(taxa, Append(out_taxa, label), k + 1)

\* for label_i, label in enumerate(taxa), from position k (from 1) on:
\* out_taxa, or the exception that ends the run.
RECURSIVE ReplaceLabels(_, _, _)
ReplaceLabels(taxa, out_taxa, k) ==
    IF k > Len(taxa) THEN [status |-> "ok", taxa |-> out_taxa]
    ELSE LET label == taxa[k]
             pre_label_i == (k - 1) - 1
         IN  IF StrMatch(label)
             THEN ReplaceLabels(taxa, Append(out_taxa, Unclassified), k + 1)
             ELSE IF Contains(Lower(label), unknown)
             THEN IF pre_label_i < 0 \/ out_taxa[pre_label_i + 1] = Unclassified
                  THEN ReplaceLabels(taxa, Append(out_taxa, Unclassified), k + 1)
                  ELSE IF ~HasTaxon(out_taxa[pre_label_i + 1]) \/ ~HasLevel(label)
                  \* .group of None
                  THEN [status |-> "AttributeError", taxa |-> out_taxa]
                  ELSE ReplaceLabels(taxa,
                           Append(out_taxa,
                                  Level(label) \o Taxon(out_taxa[pre_label_i + 1])
                                      \o <<"_","X">>),
                           k + 1)
             ELSE ReplaceLabels(taxa, Append(out_taxa, label), k + 1)

\* The body of "for line in infile" for one data line.
ReplaceLine(line_split, cc) ==
    LET str_matches ==
            Cardinality({k \in 1..(Len(str2replace) + 1) :
                \E c \in 1..Len(line_split) :
                    Contains(Lower(line_split[c]),
                             Append(str2replace, unknown)[k])})
        n == IF cc <= Len(line_split) THEN cc ELSE Len(line_split)
        res == ReplaceLabels(SubSeq(line_split, 1, n), <<>>, 1)
    IN  IF str_matches = 0
        THEN [status |-> "ok", line |-> line_split]
        ELSE [status |-> res.status,
              line |-> res.taxa \o SubSeq(line_split, n + 1, Len(line_split))]

\* for line in infile, from data line r on: the lines written to out_spf, or
\* the exception that ends the run.
RECURSIVE ReplaceLines(_, _, _, _)
ReplaceLines(lines, out_lines, cc, r) ==
    IF r > Len(lines) THEN [status |-> "ok", spf |-> out_lines]
    ELSE LET res == ReplaceLine(lines[r], cc)
         IN  IF res.status = "ok"
             THEN ReplaceLines(lines, Append(out_lines, res.line), cc, r + 1)
             ELSE [status |-> res.status, spf |-> out_lines]

replace_ambig_labels(in_spf, cc) == ReplaceLines(in_spf, <<>>, cc, 1)

(***************************************************************************)
(* Input tables.                                                           *)
(***************************************************************************)
Bac == <<"B","a","c">>
Arc == <<"A","r","c">>
Lab == <<"L","a","b">>
D(l, name) == <<"D","_">> \o str(l) \o <<"_","_">> \o name

\* The labels a cell of level l may hold: plain labels, among them one that
\* already ends in _dup0, or (with --replace_ambig) SILVA labels.
Labels(ambig, l) ==
    IF ~ambig
    THEN IF l = 0 THEN {Unclassified, Bac, Arc}
         ELSE {Unclassified, Lab, Lab \o dup \o str(0)}
    ELSE IF l = 0 THEN {D(0, Bac), Bac, D(0, unknown)}
         ELSE {D(l, <<"U","n","k","n","o","w","n">>),
               D(l, <<"U","n","c","u","l","t","u","r","e","d">>),
               D(l, Lab),
               unknown}

PayloadCells == {<<"0">>, <<"7">>}

\* The rows of cc level cells followed by one payload cell.
RECURSIVE LevelCells(_, _)
LevelCells(ambig, cc) ==
    IF cc = 0 THEN {<<>>}
    ELSE {Append(row, x) : row \in LevelCells(ambig, cc - 1),
                           x \in Labels(ambig, cc - 1)}

Rows(ambig, cc) ==
    {Append(row, x) : row \in LevelCells(ambig, cc), x \in PayloadCells}

(***************************************************************************)
(* main                                                                    *)
(***************************************************************************)
Init ==
    /\ replace_ambig \in BOOLEAN
    /\ col_count \in 1..MaxColCount
    /\ \E n \in 1..MaxRows :
          /\ n * (col_count + 1) <= IF replace_ambig THEN MaxAmbigCells
                                                        ELSE MaxCells
          /\ in_file \in [1..n -> Rows(replace_ambig, col_count)]
    /\ pc = "start"
    /\ parsed_spf = <<>>
    /\ strict_spf = <<>>
    /\ filled_spf = <<>>
    /\ out_file = <<>>
    /\ exit_msg = <<>>
    /\ error = ""

\* if args.replace_ambig: replace_ambig_labels into tmp_spf, pd.read_csv(tmp_spf)
ReadReplaced ==
    /\ pc = "start" /\ replace_ambig
    /\ LET res == replace_ambig_labels(in_file, col_count)
       IN  IF res.status = "ok"
           THEN /\ parsed_spf' = res.spf
                /\ pc' = "parsed"
                /\ error' = error
           ELSE /\ parsed_spf' = parsed_spf
                /\ pc' = "raised"
                /\ error' = res.status
    /\ UNCHANGED <<in_file, col_count, replace_ambig, strict_spf, filled_spf,
                   out_file, exit_msg>>

\* else: pd.read_csv(args.input)
ReadInput ==
    /\ pc = "start" /\ ~replace_ambig
    /\ parsed_spf' = in_file
    /\ pc' = "parsed"
    /\ UNCHANGED <<in_file, col_count, replace_ambig, strict_spf, filled_spf,
                   out_file, exit_msg, error>>

\* input_spf = force_strict_spf_hierarchy(input_spf, args.col_count)
Enforce ==
    /\ pc = "parsed"
    /\ strict_spf' = force_strict_spf_hierarchy(parsed_spf, col_count)
    /\ pc' = "strict"
    /\ UNCHANGED <<in_file, col_count, replace_ambig, parsed_spf, filled_spf,
                   out_file, exit_msg, error>>

\* input_spf = check_intermediate_unclassified(input_spf, args.col_count)
Fill ==
    /\ pc = "strict"
    /\ LET res == check_intermediate_unclassified(strict_spf, col_count)
       IN  CASE res.status = "ok" ->
                  /\ filled_spf' = res.spf
                  /\ pc' = "filled"
                  /\ UNCHANGED <<exit_msg, error>>
             [] res.status = "exit" ->
                  /\ exit_msg' = res.msg
                  /\ pc' = "exited"
                  /\ UNCHANGED <<filled_spf, error>>
             [] OTHER ->
                  /\ error' = res.status
                  /\ pc' = "raised"
                  /\ UNCHANGED <<filled_spf, exit_msg>>
    /\ UNCHANGED <<in_file, col_count, replace_ambig, parsed_spf, strict_spf,
                   out_file>>

\* input_spf.to_csv(args.output)
Write ==
    /\ pc = "filled"
    /\ out_file' = filled_spf
    /\ pc' = "done"
    /\ UNCHANGED <<in_file, col_count, replace_ambig, parsed_spf, strict_spf,
                   filled_spf, exit_msg, error>>

Next == ReadReplaced \/ ReadInput \/ Enforce \/ Fill \/ Write

Spec == Init /\ [][Next]_vars

(***************************************************************************)
(* Vocabulary of the properties.                                           *)
(***************************************************************************)
\* check_intermediate_unclassified has returned.
Filled == pc \in {"filled", "done"}

\* check_intermediate_unclassified has run, whatever its end.
FillerRan == Filled \/ pc = "exited" \/ (pc = "raised" /\ error = "ValueError")

\* force_strict_spf_hierarchy has returned.
Enforced == pc = "strict" \/ FillerRan

\* Level l (from 0) of row r of a table.
At(spf, r, l) == spf[r][l + 1]

RowsOf(spf) == 1..Len(spf)

\* The labels of column l - 1 on the rows that carry label in column l.
ParentsOf(spf, l, label) ==
    {At(spf, r, l - 1) : r \in {q \in RowsOf(spf) : At(spf, q, l) = label}}

\* Every label of the levels 1..cc-1 other than "Unclassified" has one parent.
StrictHierarchy(spf, cc) ==
    \A l \in 1..(cc - 1) : \A r \in RowsOf(spf) :
        At(spf, r, l) # Unclassified
            => Cardinality(ParentsOf(spf, l, At(spf, r, l))) = 1

\* n times the letter X
Letters(n) == [k \in 1..n |-> "X"]

\* The levels of 0..top of a row that are not "Unclassified".
ClassifiedIn(row, top) == {l \in 0..top : row[l + 1] # Unclassified}

Largest(S) == CHOOSE x \in S : \A y \in S : y <= x

\* The label the Gap Filler synthesizes for level u of a row: the nearest
\* classified ancestor's label, "_", and one X per step.
Synthesized(row, u) ==
    LET a == Largest({l \in 0..(u - 1) : row[l + 1] # Unclassified})
    IN  row[a + 1] \o <<"_">> \o Letters(u - a)

\* C1: when the pipeline completes, every label other than "Unclassified" of
\* every level 1..col_count-1 of the output has exactly one parent.
C1_StrictOutput ==
    Filled => StrictHierarchy(filled_spf, col_count)

\* C2: the Hierarchy Enforcer applied to its own output changes nothing.
C2_Idempotent ==
    Enforced => force_strict_spf_hierarchy(strict_spf, col_count) = strict_spf

\* C3: in the table the Gap Filler returns, below an "Unclassified" level
\* l < col_count-1 every level before the final one is "Unclassified".
C3_NoClassifiedUnderUnclassified ==
    Filled =>
        \A r \in RowsOf(filled_spf) : \A l \in 0..(col_count - 2) :
            At(filled_spf, r, l) = Unclassified
                => \A k \in (l + 1)..(col_count - 2) :
                       At(filled_spf, r, k) = Unclassified

\* C3 witness: the Gap Filler returned a row in which it filled one level and
\* left a later level before the final one "Unclassified".
C3_Witness ==
    /\ pc = "filled"
    /\ \E r \in RowsOf(filled_spf) :
          /\ \E l \in 0..(col_count - 2) :
                At(strict_spf, r, l) = Unclassified
                    /\ At(filled_spf, r, l) # Unclassified
          /\ \E l \in 0..(col_count - 2) : At(filled_spf, r, l) = Unclassified

\* Tables a and b have the same rows in the same order, except for the cells
\* of the columns lo..hi (from 0).
SameOutside(a, b, lo, hi) ==
    /\ Len(a) = Len(b)
    /\ \A r \in RowsOf(b) :
          /\ Len(a[r]) = Len(b[r])
          /\ \A c \in 0..(Len(b[r]) - 1) :
                (c < lo \/ c > hi) => At(a, r, c) = At(b, r, c)

\* C4: the output has the rows of the input in the same order with every cell
\* of a column >= col_count unchanged; the Enforcer writes only to the columns
\* 1..col_count-1 and the Gap Filler only to the columns 0..col_count-2.
C4_PayloadAndOrder ==
    /\ pc # "start" /\ pc # "raised"
           => SameOutside(parsed_spf, in_file, 0, col_count - 1)
    /\ Enforced => SameOutside(strict_spf, parsed_spf, 1, col_count - 1)
    /\ Filled => SameOutside(filled_spf, strict_spf, 0, col_count - 2)
    /\ pc = "done" => SameOutside(out_file, in_file, 0, col_count - 1)

\* C4 witness: the output of a table of two rows with different payload has
\* been written, and the Enforcer had renamed a label.
C4_Witness ==
    /\ pc = "done"
    /\ strict_spf # parsed_spf
    /\ \E r, q \in RowsOf(in_file) :
          At(in_file, r, col_count) # At(in_file, q, col_count)

\* A row the Gap Filler refuses: level 0 is "Unclassified" and a deeper level,
\* the final one included, is classified.
Unrepairable(row, cc) ==
    row[1] = Unclassified /\ \E l \in 1..(cc - 1) : row[l + 1] # Unclassified

\* C5: when a row reaching the Gap Filler is unrepairable, the run ends in
\* sys.exit with the lineage of such a row, and no output is written.
C5_UnrepairableIsFatal ==
    (FillerRan /\ \E r \in RowsOf(strict_spf) :
                      Unrepairable(strict_spf[r], col_count))
        => /\ pc = "exited"
           /\ out_file = <<>>
           /\ \E r \in RowsOf(strict_spf) :
                 /\ Unrepairable(strict_spf[r], col_count)
                 /\ exit_msg = Stopping
                        \o Join(SubSeq(strict_spf[r], 1, col_count - 1))

\* C6: an "Unclassified" level u, 0 < u < col_count-1, of a row whose level 0
\* and final level are classified is rewritten to the synthesized label.
C6_FillsBelowFinalLevel ==
    Filled =>
        \A r \in RowsOf(strict_spf) : \A u \in 1..(col_count - 2) :
            (/\ At(strict_spf, r, 0) # Unclassified
             /\ At(strict_spf, r, u) = Unclassified
             /\ At(strict_spf, r, col_count - 1) # Unclassified)
                => At(filled_spf, r, u) = Synthesized(strict_spf[r], u)

\* The rank, from 0, of parent p among the parents of the rows that carry
\* label in column l, in order of first occurrence from the top.
Rank(before, after, l, label, p) ==
    LET first(x) == CHOOSE r \in RowsOf(before) :
                        /\ At(before, r, l) = label /\ At(after, r, l - 1) = x
                        /\ \A q \in 1..(r - 1) :
                               ~(At(before, q, l) = label
                                     /\ At(after, q, l - 1) = x)
    IN  Cardinality({x \in {At(after, r, l - 1) :
                                r \in {q \in RowsOf(before) :
                                           At(before, q, l) = label}} :
                         first(x) < first(p)})

\* C7: the Enforcer rewrites a label L of column l >= 1 that occurs in several
\* rows under several parents to L_dupN, N the rank of the row's parent, and
\* leaves every other cell of the level columns unchanged.
C7_DupNumbering ==
    Enforced =>
        \A l \in 1..(col_count - 1) : \A r \in RowsOf(parsed_spf) :
            LET label == At(parsed_spf, r, l)
                carriers == {q \in RowsOf(parsed_spf) :
                                 At(parsed_spf, q, l) = label}
                parents == {At(strict_spf, q, l - 1) : q \in carriers}
            IN  At(strict_spf, r, l) =
                    IF /\ label # Unclassified
                       /\ Cardinality(carriers) > 1
                       /\ Cardinality(parents) > 1
                    THEN label \o <<"_","d","u","p">>
                             \o str(Rank(parsed_spf, strict_spf, l, label,
                                         At(strict_spf, r, l - 1)))
                    ELSE label

\* The lowercase form of label contains one of the given words.
Mentions(label, words) == \E w \in words : Contains(Lower(label), w)

AmbiguousWords == {str2replace[k] : k \in 1..Len(str2replace)}

\* C8: the Ambiguity Normalizer rewrites each level of a row from the label
\* and the already rewritten parent: an ambiguous label becomes
\* "Unclassified"; an unknown label becomes "Unclassified" at level 0 or under
\* an "Unclassified" parent and else its level prefix, the parent's taxon
\* name and "_X"; every other label is unchanged.
C8_AmbiguityRewriting ==
    (replace_ambig /\ pc # "start" /\ pc # "raised") =>
        \A r \in RowsOf(in_file) : \A l \in 0..(col_count - 1) :
            LET label == At(in_file, r, l)
            IN  At(parsed_spf, r, l) =
                    IF Mentions(label, AmbiguousWords) THEN Unclassified
                    ELSE IF Mentions(label, {unknown})
                    THEN IF l = 0 \/ At(parsed_spf, r, l - 1) = Unclassified
                         THEN Unclassified
                         ELSE Level(label) \o Taxon(At(parsed_spf, r, l - 1))
                                  \o <<"_","X">>
                    ELSE label

\* C8 witness: the Normalizer returned a row in which an unknown label under
\* a classified parent got the "_X" label and an unknown label under a parent
\* it had rewritten to "Unclassified" became "Unclassified".
C8_Witness ==
    /\ replace_ambig /\ pc = "parsed"
    /\ \E r \in RowsOf(in_file) :
          /\ \E l \in 1..(col_count - 1) :
                /\ Mentions(At(in_file, r, l), {unknown})
                /\ ~Mentions(At(in_file, r, l), AmbiguousWords)
                /\ At(in_file, r, l - 1) # Unclassified
                /\ At(parsed_spf, r, l - 1) = Unclassified
                /\ At(parsed_spf, r, l) = Unclassified
          /\ \E l \in 1..(col_count - 1) :
                /\ Mentions(At(in_file, r, l), {unknown})
                /\ At(parsed_spf, r, l) \notin {Unclassified, At(in_file, r, l)}

PassThrough(row, cc) ==
    \/ ClassifiedIn(row, cc - 2) = {}
    \/ \A l \in 0..(cc - 2) :
           row[l + 1] = Unclassified
               => l > Largest(ClassifiedIn(row, cc - 2))

\* C10: on a table of rows to pass through the Gap Filler raises no error
\* and returns every row unchanged.
C10_PassThrough ==
    (FillerRan /\ \A r \in RowsOf(strict_spf) :
                      PassThrough(strict_spf[r], col_count))
        => Filled /\ filled_spf = strict_spf

====
